---- MODULE Spec2Model ----
(***************************************************************************)
(* Model of the binary-time watchface (src/src/main.c).                    *)
(*                                                                         *)
(* Two specifications live in this module:                                 *)
(*   SpecEnc  a harness for the pure function format_as_binary (and the    *)
(*            power it calls): Init draws the arguments, EncCall applies   *)
(*            the function;                                                *)
(*   Spec     the application: start, the event loop's tick callbacks and  *)
(*            end, with the four static buffers and the four text layers.  *)
(*                                                                         *)
(* C indices are kept: a buffer of length L is a function on 0..L-1.       *)
(* An int is 32 bits wide, two's complement; an overflowing signed         *)
(* operation is undefined behaviour in C, and every build of this code     *)
(* (gcc -O0/-Os/-O2) wraps: the model wraps and records that it happened   *)
(* in the flag ub.                                                         *)
(***************************************************************************)
EXTENDS Integers, Sequences, FiniteSets, TLC

VARIABLES
    \* ---- the application (Spec)
    pc,             \* position of main: "start", "event_loop", "end", "done"
    subscribed,     \* tick_timer_service holds on_tick
    window,         \* main_window: "none", "created", "loaded", "destroyed"
    layers,         \* the four TextLayer objects: state and text pointer
    buffers,        \* the four static binary buffers
    log,            \* the four lines debug_time logged last
    is24h,          \* the device's clock style, read by clock_is_24h_style()
    ticks,          \* number of ticks the host delivered to on_tick
    passes,         \* number of display_time invocations
    last,           \* the time and style of the last display_time invocation
    history,        \* whether every pass so far ran with all four layers live
    delivered,      \* the time the host delivered last (startup or tick), and the style then
    \* ---- the encoder harness (SpecEnc)
    enc_pc,         \* "off", "ready", "returned"
    enc_length,     \* argument length
    enc_value,      \* argument value
    enc_buffer,     \* the caller's buffer
    enc_writes,     \* the indices format_as_binary wrote, in order
    enc_ub          \* a signed operation overflowed during the call

appvars == <<pc, subscribed, window, layers, buffers, log, is24h, ticks, passes, last,
             history, delivered>>
encvars == <<enc_pc, enc_length, enc_value, enc_buffer, enc_writes, enc_ub>>
vars == <<appvars, encvars>>

----------------------------------------------------------------------------
(* Program constants                                                       *)

\* The hour given one bit too few.
HOUR_BINARY_LENGTH_short == 5 - 1

HOUR_BINARY_LENGTH == 5
MINUTE_BINARY_LENGTH == 6
MONTH_BINARY_LENGTH == 4
DAY_BINARY_LENGTH == 6

\* int is 32 bits wide; its largest and smallest values.
INT_BITS == 32
INT_MAX == 2147483647
INT_MIN == -INT_MAX - 1

\* Characters: the digits, the terminator, and "?" for a byte of a buffer
\* handed to format_as_binary whose previous content is not known.
NUL == "NUL"
Digits == {"0", "1"}

----------------------------------------------------------------------------
(* Bounds of the model                                                     *)

\* Buffer lengths 1..MaxLength are handed to format_as_binary.
MaxLength == 33
\* Every value in -MaxValue..MaxValue is handed to format_as_binary.
MaxValue == 70
\* The host delivers at most MaxTicks ticks in a run.
MaxTicks == 3

----------------------------------------------------------------------------
(* int arithmetic: the C operators on 32-bit ints, wrapping on overflow.   *)
(* No intermediate result leaves INT_MIN..INT_MAX.                         *)

AddOverflows(a, b) ==
    \/ a > 0 /\ b > 0 /\ a > INT_MAX - b
    \/ a < 0 /\ b < 0 /\ a < INT_MIN - b

AddInt(a, b) ==
    IF a > 0 /\ b > 0 /\ a > INT_MAX - b
    THEN (a + INT_MIN) + (b + INT_MIN)
    ELSE IF a < 0 /\ b < 0 /\ a < INT_MIN - b
    THEN (a - INT_MIN) + (b - INT_MIN)
    ELSE a + b

SubOverflows(a, b) ==
    \/ a >= 0 /\ b < 0 /\ a > INT_MAX + b
    \/ a < 0 /\ b > 0 /\ a < INT_MIN + b

SubInt(a, b) ==
    IF a >= 0 /\ b < 0 /\ a > INT_MAX + b
    THEN (a + INT_MIN) - (b - INT_MIN)
    ELSE IF a < 0 /\ b > 0 /\ a < INT_MIN + b
    THEN (a - INT_MIN) - (b + INT_MIN)
    ELSE a - b

\* p * base for base >= 0 (the only base the program uses is 2), as a
\* record [val, ub]: the wrapped product and whether it overflowed.
RECURSIVE MulInt(_, _)
MulInt(p, base) ==
    IF base = 0 THEN [val |-> 0, ub |-> FALSE]
    ELSE LET r == MulInt(p, base - 1) IN
         [val |-> AddInt(r.val, p), ub |-> r.ub \/ AddOverflows(r.val, p)]

----------------------------------------------------------------------------
(* power                                                                   *)

\* The loop of power from iteration i on: p is the running product, ub
\* whether a product overflowed so far.
RECURSIVE power_loop(_, _, _, _, _)
power_loop(p, ub, i, base, expont) ==
    IF i < expont
    THEN LET m == MulInt(p, base) IN
         IF m.ub THEN power_loop(m.val, TRUE, i + 1, base, expont)
                 ELSE power_loop(m.val, ub, i + 1, base, expont)
    ELSE [val |-> p, ub |-> ub]

\* power(base, expont): [val, ub], the int returned and whether p *= base
\* overflowed on the way.
power(base, expont) == power_loop(1, FALSE, 0, base, expont)

----------------------------------------------------------------------------
(* format_as_binary                                                        *)

\* buffer[i] = c. A write outside the buffer does not change the buffer's
\* bytes (it lands elsewhere); the index is still recorded by the caller.
Store(buffer, i, c) ==
    IF i \in DOMAIN buffer THEN [buffer EXCEPT ![i] = c] ELSE buffer

\* One state of the loop: the buffer, store, the indices written, ub.
RECURSIVE format_loop(_, _, _)
format_loop(i, end, st) ==
    IF i < end
    THEN LET pw == power(2, end - 1 - i) IN
         IF st.store >= pw.val
         THEN format_loop(i + 1, end,
                  [buffer |-> Store(st.buffer, i, "1"),
                   store  |-> SubInt(st.store, pw.val),
                   writes |-> Append(st.writes, i),
                   ub     |-> st.ub \/ pw.ub \/ SubOverflows(st.store, pw.val)])
         ELSE format_loop(i + 1, end,
                  [buffer |-> Store(st.buffer, i, "0"),
                   store  |-> st.store,
                   writes |-> Append(st.writes, i),
                   ub     |-> st.ub \/ pw.ub])
    ELSE st

\* The value reduced to its low-order length-1 bits before the scan.
format_as_binary_truncating(buffer, length, value) ==
    LET end == length - 1
        low == IF end \in 0 .. 30 /\ value >= 0 THEN value % (2 ^ end) ELSE value
        st  == format_loop(0, end,
                   [buffer |-> buffer, store |-> low, writes |-> <<>>, ub |-> FALSE])
    IN  [buffer |-> Store(st.buffer, end, NUL),
         writes |-> Append(st.writes, end),
         ub     |-> st.ub]

\* end taken as length instead of length - 1: one digit and the terminator
\* land one place further.
format_as_binary_overrun(buffer, length, value) ==
    LET end == length
        st  == format_loop(0, end,
                   [buffer |-> buffer, store |-> value, writes |-> <<>>, ub |-> FALSE])
    IN  [buffer |-> Store(st.buffer, end, NUL),
         writes |-> Append(st.writes, end),
         ub     |-> st.ub]

\* Only the '1' digits are written: a '0' place keeps what the buffer held.
format_as_binary_onesonly(buffer, length, value) ==
    LET end == length - 1
        st  == format_loop(0, end,
                   [buffer |-> buffer, store |-> value, writes |-> <<>>, ub |-> FALSE])
    IN  [buffer |-> [i \in DOMAIN buffer |->
                        IF i = end THEN NUL
                        ELSE IF st.buffer[i] = "1" THEN "1" ELSE buffer[i]],
         writes |-> Append(st.writes, end),
         ub     |-> st.ub]

\* format_as_binary(buffer, length, value): [buffer, writes, ub], the
\* buffer on return, the indices written in order, and whether a signed
\* operation overflowed.
format_as_binary(buffer, length, value) ==
    LET end == length - 1
        st  == format_loop(0, end,
                   [buffer |-> buffer, store |-> value, writes |-> <<>>, ub |-> FALSE])
    IN  [buffer |-> Store(st.buffer, end, NUL),
         writes |-> Append(st.writes, end),
         ub     |-> st.ub]

----------------------------------------------------------------------------
(* The encoder harness                                                     *)

\* 2^k for 0 <= k <= 30.
RECURSIVE TwoPow(_)
TwoPow(k) == IF k = 0 THEN 1 ELSE 2 * TwoPow(k - 1)

\* The values handed to format_as_binary: every small value, the values
\* around each power of two, and the ends of int.
Values ==
    (-MaxValue .. MaxValue)
    \cup { TwoPow(k) + d : k \in 8..30, d \in {-1, 0, 1} }
    \cup { INT_MAX, INT_MAX - 1, INT_MIN, INT_MIN + 1 }

\* A buffer of the given length whose previous content is not known.
Unknown(length) == [i \in 0 .. length - 1 |-> "?"]

EncOff ==
    /\ enc_pc = "off"
    /\ enc_length = 1
    /\ enc_value = 0
    /\ enc_buffer = Unknown(1)
    /\ enc_writes = <<>>
    /\ enc_ub = FALSE

EncCall ==
    /\ enc_pc = "ready"
    /\ LET r == format_as_binary(enc_buffer, enc_length, enc_value) IN
        /\ enc_buffer' = r.buffer
        /\ enc_writes' = r.writes
        /\ enc_ub' = r.ub
    /\ enc_pc' = "returned"
    /\ UNCHANGED <<enc_length, enc_value, appvars>>

EncInit ==
    /\ enc_pc = "ready"
    /\ enc_length \in 1 .. MaxLength
    /\ enc_value \in Values
    /\ enc_buffer = Unknown(enc_length)
    /\ enc_writes = <<>>
    /\ enc_ub = FALSE

----------------------------------------------------------------------------
(* The application's data                                                  *)

Fields == {"hour", "minute", "month", "day"}

\* sizeof of each static buffer: char x_binary_buffer[X_BINARY_LENGTH + 1].
BufferLength(f) ==
    CASE f = "hour"   -> HOUR_BINARY_LENGTH + 1
      [] f = "minute" -> MINUTE_BINARY_LENGTH + 1
      [] f = "month"  -> MONTH_BINARY_LENGTH + 1
      [] f = "day"    -> DAY_BINARY_LENGTH + 1

\* A static char array is zero-initialised.
StaticBuffer(f) == [i \in 0 .. BufferLength(f) - 1 |-> NUL]

\* The C string a buffer holds: its characters before the first NUL.
RECURSIVE CStringFrom(_, _)
CStringFrom(buffer, i) ==
    IF i \notin DOMAIN buffer \/ buffer[i] = NUL THEN <<>>
    ELSE <<buffer[i]>> \o CStringFrom(buffer, i + 1)

CString(buffer) == CStringFrom(buffer, 0)

\* The struct tm values the host clock supplies: every hour, minute, month
\* and day-of-month occurs, and the two corner times.
Times ==
    { [tm_hour |-> k % 24, tm_min |-> k, tm_mon |-> k % 12, tm_mday |-> 1 + (k % 31)]
        : k \in 0 .. 59 }
    \cup { [tm_hour |-> 0,  tm_min |-> 5,  tm_mon |-> 0,  tm_mday |-> 1],
           [tm_hour |-> 23, tm_min |-> 59, tm_mon |-> 11, tm_mday |-> 31] }

NoTime == [tm_hour |-> 0, tm_min |-> 0, tm_mon |-> 0, tm_mday |-> 1]

----------------------------------------------------------------------------
(* tm_get_hours, tm_get_months                                             *)

\* The 12-hour branch without the substitution of 12 for 0.
tm_get_hours_nosubst(tick_time, style24) ==
    IF style24 THEN tick_time.tm_hour ELSE tick_time.tm_hour % 12

\* tm_get_hours; style24 is what clock_is_24h_style() returns.
\* (tm_hour >= 0, so C's % is the mathematical one.)
tm_get_hours(tick_time, style24) ==
    LET hours == tick_time.tm_hour IN
    IF style24 THEN hours
    ELSE IF hours % 12 = 0 THEN 12 ELSE hours % 12

\* The month left 0-based.
tm_get_months_zerobased(tick_time) == tick_time.tm_mon

tm_get_months(tick_time) == tick_time.tm_mon + 1

----------------------------------------------------------------------------
(* debug_time, display_time                                                *)

\* The four lines logged: "<Name> <decimal> --> <binary>" (each fits the
\* 32-byte debug buffer for every value of the clock).
debug_time(tick_time, style24, bufs) ==
    [f \in Fields |->
        [value |-> CASE f = "hour"   -> tm_get_hours(tick_time, style24)
                     [] f = "minute" -> tick_time.tm_min
                     [] f = "month"  -> tm_get_months(tick_time)
                     [] f = "day"    -> tick_time.tm_mday,
         binary |-> CString(bufs[f])]]

\* text_layer_set_text(layer, buffer): the layer keeps the pointer.
text_layer_set_text(layer, bufname) ==
    IF layer.state = "live" THEN [layer EXCEPT !.text = bufname] ELSE layer

\* The values display_time hands to format_as_binary.
FieldValue(f, tick_time, style24) ==
    CASE f = "hour"   -> tm_get_hours(tick_time, style24)
      [] f = "minute" -> tick_time.tm_min
      [] f = "month"  -> tm_get_months(tick_time)
      [] f = "day"    -> tick_time.tm_mday

\* The month layer pointed at the day buffer.
display_time_wronglayer(P, tick_time, style24) ==
    LET bufs == [f \in Fields |->
                    format_as_binary(P.buffers[f], BufferLength(f),
                                     FieldValue(f, tick_time, style24)).buffer]
    IN  [P EXCEPT
            !.buffers = bufs,
            !.log     = debug_time(tick_time, style24, bufs),
            !.layers  = [f \in Fields |->
                            text_layer_set_text(P.layers[f],
                                                IF f = "month" THEN "day" ELSE f)],
            !.passes  = P.passes + 1,
            !.last    = [time |-> tick_time, style24 |-> style24],
            !.history = P.history /\ \A f \in Fields : P.layers[f].state = "live"]

\* display_time on the program state P (a record of the program's
\* variables). passes, last and history record the invocation itself.
display_time(P, tick_time, style24) ==
    LET bufs == [f \in Fields |->
                    format_as_binary(P.buffers[f], BufferLength(f),
                                     FieldValue(f, tick_time, style24)).buffer]
    IN  [P EXCEPT
            !.buffers = bufs,
            !.log     = debug_time(tick_time, style24, bufs),
            !.layers  = [f \in Fields |-> text_layer_set_text(P.layers[f], f)],
            !.passes  = P.passes + 1,
            !.last    = [time |-> tick_time, style24 |-> style24],
            !.history = P.history /\ \A f \in Fields : P.layers[f].state = "live"]

----------------------------------------------------------------------------
(* Handlers                                                                *)

\* A tick whose time equals the time shown is skipped.
on_tick_coalescing(P, tick_time, style24) ==
    IF P.passes > 0 /\ P.last.time = tick_time THEN P
    ELSE display_time(P, tick_time, style24)

on_tick(P, tick_time, style24) == display_time(P, tick_time, style24)

\* The four text layers are created (text_layer_create), styled and added
\* to the window; then the time is displayed.
on_main_window_load(P, init_tick_time, style24) ==
    display_time(
        [P EXCEPT !.layers = [f \in Fields |-> [state |-> "live", text |-> "none"]]],
        init_tick_time, style24)

on_main_window_unload(P) ==
    [P EXCEPT !.layers = [f \in Fields |-> [P.layers[f] EXCEPT !.state = "destroyed"]]]

\* start without window_stack_push: the window is created, never loaded.
start_nopush(P, init_tick_time, style24) ==
    [P EXCEPT !.subscribed = TRUE, !.window = "created"]

\* start: subscribe, create the window, set its handlers, push it.
\* window_stack_push loads the window: the host calls the load handler
\* before it returns.
start(P, init_tick_time, style24) ==
    LET subscribedP == [P EXCEPT !.subscribed = TRUE, !.window = "created"]
        loadedP     == on_main_window_load(subscribedP, init_tick_time, style24)
    IN  [loadedP EXCEPT !.window = "loaded"]

\* end: window_destroy calls the unload handler of a loaded window; then
\* the tick subscription is cancelled.
end(P) ==
    LET unloadedP == IF P.window = "loaded" THEN on_main_window_unload(P) ELSE P
    IN  [unloadedP EXCEPT !.window = "destroyed", !.subscribed = FALSE]

----------------------------------------------------------------------------
(* The application as a state machine                                      *)

\* The program's variables as one record, the form the handlers take.
Prog ==
    [subscribed |-> subscribed, window |-> window, layers |-> layers,
     buffers |-> buffers, log |-> log, passes |-> passes, last |-> last,
     history |-> history]

Becomes(P) ==
    /\ subscribed' = P.subscribed
    /\ window' = P.window
    /\ layers' = P.layers
    /\ buffers' = P.buffers
    /\ log' = P.log
    /\ passes' = P.passes
    /\ last' = P.last
    /\ history' = P.history

\* The state main starts in: static pointers are NULL, static arrays zero.
AppInit ==
    /\ pc = "start"
    /\ subscribed = FALSE
    /\ window = "none"
    /\ layers = [f \in Fields |-> [state |-> "null", text |-> "none"]]
    /\ buffers = [f \in Fields |-> StaticBuffer(f)]
    /\ log = [f \in Fields |-> [value |-> 0, binary |-> <<>>]]
    /\ ticks = 0
    /\ passes = 0
    /\ last = [time |-> NoTime, style24 |-> FALSE]
    /\ history = TRUE
    /\ delivered = [time |-> NoTime, style24 |-> FALSE]

\* main calls start(); the load handler reads the clock (time, localtime).
Start(t) ==
    /\ pc = "start"
    /\ Becomes(start(Prog, t, is24h))
    /\ delivered' = [time |-> t, style24 |-> is24h]
    /\ pc' = "event_loop"
    /\ UNCHANGED <<is24h, ticks, encvars>>

\* app_event_loop delivers a tick to the subscribed handler.
Tick(t) ==
    /\ pc = "event_loop"
    /\ subscribed
    /\ ticks < MaxTicks
    /\ Becomes(on_tick(Prog, t, is24h))
    /\ delivered' = [time |-> t, style24 |-> is24h]
    /\ ticks' = ticks + 1
    /\ UNCHANGED <<pc, is24h, encvars>>

\* The user changes the 12/24-hour setting between callbacks.
ChangeStyle ==
    /\ pc = "event_loop"
    /\ is24h' = ~is24h
    /\ UNCHANGED <<pc, subscribed, window, layers, buffers, log, ticks, passes, last,
                   history, delivered, encvars>>

\* app_event_loop returns.
Exit ==
    /\ pc = "event_loop"
    /\ pc' = "end"
    /\ UNCHANGED <<subscribed, window, layers, buffers, log, is24h, ticks, passes, last,
                   history, delivered, encvars>>

\* main calls end().
End ==
    /\ pc = "end"
    /\ Becomes(end(Prog))
    /\ pc' = "done"
    /\ UNCHANGED <<is24h, ticks, delivered, encvars>>

Init == AppInit /\ is24h \in BOOLEAN /\ EncOff

Next ==
    \/ \E t \in Times : Start(t)
    \/ \E t \in Times : Tick(t)
    \/ ChangeStyle
    \/ Exit
    \/ End

Spec == Init /\ [][Next]_vars

\* The harness: the application stays in its initial state.
InitEnc == AppInit /\ is24h = FALSE /\ EncInit

NextEnc == EncCall

SpecEnc == InitEnc /\ [][NextEnc]_vars

----------------------------------------------------------------------------
(* Reading a digit string                                                  *)

\* s read as a most-significant-bit-first binary number is v (v >= 0).
RECURSIVE DecodesTo(_, _)
DecodesTo(s, v) ==
    IF s = <<>> THEN v = 0
    ELSE /\ s[Len(s)] = (IF v % 2 = 1 THEN "1" ELSE "0")
         /\ DecodesTo(SubSeq(s, 1, Len(s) - 1), v \div 2)

\* The number a string of at most 30 digits reads as; -1 if it is not digits.
RECURSIVE Decode(_)
Decode(s) ==
    IF s = <<>> THEN 0
    ELSE LET front == Decode(SubSeq(s, 1, Len(s) - 1)) IN
         IF front < 0 \/ s[Len(s)] \notin Digits THEN -1
         ELSE 2 * front + (IF s[Len(s)] = "1" THEN 1 ELSE 0)

\* w times the character c.
Repeat(c, w) == [i \in 1 .. w |-> c]

\* The harness's call: its width and the string the buffer holds.
EncWidth == enc_length - 1
EncText == CString(enc_buffer)

\* 0 <= v < 2^w for an int v.
InRange(v, w) == v >= 0 /\ (w >= INT_BITS - 1 \/ v < TwoPow(w))

\* v >= 2^w for an int v (no int reaches 2^31).
AboveRange(v, w) == w < INT_BITS - 1 /\ v >= TwoPow(w)

----------------------------------------------------------------------------
(* Claims about format_as_binary, checked under SpecEnc                    *)

\* C1 as stated: for every width w >= 1 and every v with 0 <= v < 2^w, the
\* buffer of length w + 1 holds exactly w characters that read, most
\* significant bit first, as v.
C1_EveryWidth ==
    (enc_pc = "returned" /\ EncWidth >= 1 /\ InRange(enc_value, EncWidth))
        => /\ Len(EncText) = EncWidth
           /\ DecodesTo(EncText, enc_value)

\* C1 restricted to the widths 1 <= w <= 31, at which power(2, w - 1) fits
\* an int: there the statement holds, no signed operation overflows, and
\* v = 0 gives w '0' characters.
C1_WidthsWithinInt ==
    (enc_pc = "returned" /\ EncWidth \in 1 .. INT_BITS - 1 /\ InRange(enc_value, EncWidth))
        => /\ Len(EncText) = EncWidth
           /\ DecodesTo(EncText, enc_value)
           /\ enc_buffer[EncWidth] = NUL
           /\ ~enc_ub
           /\ (enc_value = 0 => EncText = Repeat("0", EncWidth))

\* A case of C1 within int: 45 encoded at width 6.
C1_Witness ==
    /\ enc_pc = "returned"
    /\ enc_length = 7
    /\ enc_value = 45
    /\ EncText = <<"1", "0", "1", "1", "0", "1">>

C8_WritesWithinBuffer ==
    enc_pc = "returned" =>
        /\ enc_writes = [k \in 1 .. enc_length |-> k - 1]
        /\ \A i \in 0 .. enc_length - 2 : enc_buffer[i] \in Digits
        /\ enc_buffer[enc_length - 1] = NUL

\* C8's case: a negative value and the longest buffer, where power(2, 31)
\* overflows.
C8_Witness ==
    /\ enc_pc = "returned"
    /\ enc_value = -1
    /\ enc_length = MaxLength
    /\ enc_ub
    /\ Len(enc_writes) = MaxLength

----------------------------------------------------------------------------
(* Claims about the application, checked under Spec                        *)

\* The hour the 12/24-hour convention displays for hour h.
ShownHour(h, style24) ==
    IF style24 THEN h ELSE IF h % 12 = 0 THEN 12 ELSE h % 12

\* The number each field displays for a time and a style.
Shown(f, t, style24) ==
    CASE f = "hour"   -> ShownHour(t.tm_hour, style24)
      [] f = "minute" -> t.tm_min
      [] f = "month"  -> t.tm_mon + 1
      [] f = "day"    -> t.tm_mday

\* The widths of the four fields.
Width(f) ==
    CASE f = "hour" -> 5 [] f = "minute" -> 6 [] f = "month" -> 4 [] f = "day" -> 6

\* v as w binary digits, most significant first.
RECURSIVE BitsOf(_, _)
BitsOf(v, w) ==
    IF w = 0 THEN <<>>
    ELSE Append(BitsOf(v \div 2, w - 1), IF v % 2 = 1 THEN "1" ELSE "0")

\* C3: the hour tm_get_hours returned in the last pass (the decimal value
\* debug_time logged) is the hour h itself under the 24-hour style, and
\* under the 12-hour style 12 if h mod 12 = 0 and h mod 12 otherwise,
\* always within 1..12.
C3_Hours ==
    passes > 0 =>
        LET h == last.time.tm_hour
            shown == log["hour"].value
        IN  /\ last.style24 => shown = h
            /\ ~last.style24 =>
                /\ shown = (IF h % 12 = 0 THEN 12 ELSE h % 12)
                /\ shown \in 1 .. 12
                /\ h \in {0, 12} => shown = 12
                /\ h = 13 => shown = 1

\* C3's case: midnight under the 12-hour style shows 12.
C3_Witness ==
    /\ passes > 0
    /\ ~last.style24
    /\ last.time.tm_hour = 0
    /\ log["hour"].value = 12

\* C4: after a pass with month m (0-based) the month buffer reads m + 1,
\* within 1..12, under either style.
C4_Month ==
    passes > 0 =>
        /\ Decode(CString(buffers["month"])) = last.time.tm_mon + 1
        /\ Decode(CString(buffers["month"])) \in 1 .. 12

\* C4's case: month 11 under the 24-hour style gives "1100".
C4_Witness ==
    /\ passes > 0
    /\ last.style24
    /\ last.time.tm_mon = 11
    /\ CString(buffers["month"]) = <<"1", "1", "0", "0">>

\* C5: after a pass the hour, minute, month and day buffers hold exactly
\* 5, 6, 4 and 6 digits that read as the displayed hour, the minute,
\* month + 1 and the day: nothing is cut at these widths.
C5_NothingCut ==
    passes > 0 =>
        \A f \in Fields :
            /\ Len(CString(buffers[f])) = Width(f)
            /\ Decode(CString(buffers[f])) = Shown(f, last.time, last.style24)

\* C5's case: 23:59 on 31 December under the 24-hour style.
C5_Witness ==
    /\ passes > 0
    /\ last.style24
    /\ CString(buffers["hour"]) = <<"1", "0", "1", "1", "1">>
    /\ CString(buffers["minute"]) = <<"1", "1", "1", "0", "1", "1">>
    /\ CString(buffers["month"]) = <<"1", "1", "0", "0">>
    /\ CString(buffers["day"]) = <<"0", "1", "1", "1", "1", "1">>

\* C6: no pass runs before start; from then on the passes are the startup
\* pass and one per delivered tick, the last pass is the one for the time
\* delivered last, and it set the text of all four layers.
C6_OnePassPerTick ==
    /\ pc = "start" => passes = 0
    /\ pc # "start" => passes = ticks + 1
    /\ pc = "event_loop" =>
        /\ last = delivered
        /\ \A f \in Fields : layers[f].state = "live" /\ layers[f].text = f

\* C6's case: every tick of the run delivered, one pass each.
C6_Witness ==
    /\ pc = "event_loop"
    /\ ticks = MaxTicks
    /\ passes = MaxTicks + 1

\* C7: after a pass the four buffers are what format_as_binary leaves in
\* buffers of unknown content for that pass's time and style: nothing of
\* an earlier pass is left in them.
C7_OnlyThisPass ==
    passes > 0 =>
        \A f \in Fields :
            buffers[f] =
                format_as_binary(Unknown(BufferLength(f)), BufferLength(f),
                                 FieldValue(f, last.time, last.style24)).buffer

\* C7's case: 00:05 on 1 January shown after two earlier passes.
C7_Witness ==
    /\ passes = 3
    /\ last.time = [tm_hour |-> 0, tm_min |-> 5, tm_mon |-> 0, tm_mday |-> 1]
    /\ CString(buffers["minute"]) = <<"0", "0", "0", "1", "0", "1">>

\* C9: between callbacks, while the layers exist, the text each layer
\* points at is the complete encoding of its field of the time delivered
\* last.
C9_LayersShowLastTime ==
    pc \in {"event_loop", "end"} =>
        \A f \in Fields :
            /\ layers[f].state = "live"
            /\ layers[f].text \in Fields
            /\ CString(buffers[layers[f].text])
                   = BitsOf(Shown(f, delivered.time, delivered.style24), Width(f))

\* C9's case: a tick at minute 59 after a pass that showed another minute.
C9_Witness ==
    /\ pc = "event_loop"
    /\ ticks = 2
    /\ delivered.time.tm_min = 59
    /\ layers["minute"].text = "minute"
    /\ CString(buffers["minute"]) = <<"1", "1", "1", "0", "1", "1">>

\* C10: every display_time invocation so far ran with all four layers
\* created and none destroyed; ticks are delivered only while they are;
\* and at the end the layers are destroyed and the subscription cancelled.
C10_PassesWhileLayersLive ==
    /\ history
    /\ (pc = "event_loop" /\ subscribed) =>
            window = "loaded" /\ \A f \in Fields : layers[f].state = "live"
    /\ pc = "done" =>
            ~subscribed /\ \A f \in Fields : layers[f].state = "destroyed"

\* C10's case: a whole run, with the startup pass and every tick.
C10_Witness ==
    /\ pc = "done"
    /\ passes = MaxTicks + 1
    /\ history
    /\ ~subscribed
    /\ \A f \in Fields : layers[f].state = "destroyed"

====
